---------------------------- MODULE Spec2Model ----------------------------
(***************************************************************************)
(* A model of go-exfat: the VHD container reader (VHDFile.ReadAt) and the  *)
(* exFAT reader layered on it (cluster-chain reads, directory parsing,     *)
(* path resolution, ListDir / ReadFile).                                    *)
(*                                                                         *)
(* Conventions.                                                            *)
(*  - A Go string is a sequence of bytes (0..255); a UTF-16 name is a      *)
(*    sequence of code units.                                              *)
(*  - TLC integers are 32-bit signed, so the 32-bit special values of the  *)
(*    source (0xFFFFFFFF, 0xFFFFFFF8, 0xFFFFFFF7) are written with the top *)
(*    bit cleared (0x7FFFFFFF, ...).  They are only ever compared, and the *)
(*    order among them and 0x10000000 is the source's.                     *)
(*  - A directory buffer is a sequence of 32-byte slots.  A slot is a      *)
(*    record of the fields the three entry layouts overlay on its bytes;   *)
(*    AsStream / AsName compute what a slot of another type yields when    *)
(*    the parser reads it through the wrong layout.                        *)
(*  - The bytes a read returns are kept as runs: a run [off, n] is n bytes *)
(*    of the container starting at byte offset off, and zeros counts the   *)
(*    bytes of the buffer no read wrote.                                   *)
(***************************************************************************)
EXTENDS Integers, Sequences, FiniteSets, TLC

VARIABLES fs, disk, call, dirData, v

vars == <<fs, disk, call, dirData, v>>

(***************************************************************************)
(* Program constants                                                       *)
(***************************************************************************)
EntryTypeEndOfDirectory == 0
EntryTypeFile == 133
EntryTypeFileInfo == 192
EntryTypeFileName == 193
EndOfClusterChain == 2147483647
BadCluster == 2147483639
ReservedCluster == 2147483640
ClusterCeiling == 268435456
BlockUnallocated == 2147483647
SectorSize == 512
DirClusters == 16
SlotSize == 32
NameUnits == 15
AttrDirectory == 16

(***************************************************************************)
(* Generic helpers                                                         *)
(***************************************************************************)
Min(a, b) == IF a < b THEN a ELSE b

RECURSIVE Pow2(_)
Pow2(n) == IF n = 0 THEN 1 ELSE 2 * Pow2(n - 1)

RECURSIVE Concat(_)
Concat(ss) == IF ss = <<>> THEN <<>> ELSE Head(ss) \o Concat(Tail(ss))

Take(s, n) == SubSeq(s, 1, Min(n, Len(s)))

Drop(s, n) == SubSeq(s, n + 1, Len(s))

Repeat(x, n) == [i \in 1..n |-> x]

\* F(e), with e evaluated once: LET a == e IN F(a).
With(e, F(_)) == CHOOSE y \in {F(a) : a \in {e}} : TRUE

(***************************************************************************)
(* Strings: UTF-16 decoding to a Go string, trimming, case folding         *)
(***************************************************************************)
RuneError == 65533

IsHighSurrogate(u) == u >= 55296 /\ u < 56320

IsLowSurrogate(u) == u >= 56320 /\ u < 57344

\* utf16.Decode: a surrogate pair is one rune, a lone surrogate is U+FFFD.
RECURSIVE Utf16Decode(_)
Utf16Decode(units) ==
  IF units = <<>> THEN <<>>
  ELSE LET u == Head(units) IN
       IF IsHighSurrogate(u) /\ Len(units) >= 2 /\ IsLowSurrogate(units[2])
       THEN <<65536 + (u - 55296) * 1024 + (units[2] - 56320)>>
              \o Utf16Decode(Drop(units, 2))
       ELSE IF IsHighSurrogate(u) \/ IsLowSurrogate(u)
       THEN <<RuneError>> \o Utf16Decode(Tail(units))
       ELSE <<u>> \o Utf16Decode(Tail(units))

\* string(rune): the UTF-8 encoding of one rune.
Utf8Encode(r) ==
  IF r < 128 THEN <<r>>
  ELSE IF r < 2048 THEN <<192 + (r \div 64), 128 + (r % 64)>>
  ELSE IF r < 65536
  THEN <<224 + (r \div 4096), 128 + ((r \div 64) % 64), 128 + (r % 64)>>
  ELSE <<240 + (r \div 262144), 128 + ((r \div 4096) % 64),
         128 + ((r \div 64) % 64), 128 + (r % 64)>>

RECURSIVE RunesToString(_)
RunesToString(rs) ==
  IF rs = <<>> THEN <<>> ELSE Utf8Encode(Head(rs)) \o RunesToString(Tail(rs))

\* string(utf16.Decode(nameRunes))
Utf16ToString(units) == RunesToString(Utf16Decode(units))

IsCont(b) == b >= 128 /\ b < 192

\* The runes a range loop over a Go string yields: an invalid byte is U+FFFD.
RECURSIVE StringRunes(_)
StringRunes(s) ==
  IF s = <<>> THEN <<>>
  ELSE LET b == Head(s) IN
       IF b < 128 THEN <<b>> \o StringRunes(Tail(s))
       ELSE IF b >= 194 /\ b < 224 /\ Len(s) >= 2 /\ IsCont(s[2])
       THEN <<(b - 192) * 64 + (s[2] - 128)>> \o StringRunes(Drop(s, 2))
       ELSE IF b >= 224 /\ b < 240 /\ Len(s) >= 3 /\ IsCont(s[2]) /\ IsCont(s[3])
               /\ (b - 224) * 4096 + (s[2] - 128) * 64 + (s[3] - 128) >= 2048
       THEN <<(b - 224) * 4096 + (s[2] - 128) * 64 + (s[3] - 128)>>
              \o StringRunes(Drop(s, 3))
       ELSE <<RuneError>> \o StringRunes(Tail(s))

\* Simple case folding of the runes the model's names use: ASCII letters
\* fold, and the other runes of the name alphabets have no case.
FoldRune(r) == IF r >= 65 /\ r <= 90 THEN r + 32 ELSE r

EqualFoldExact(s, t) == s = t

\* strings.EqualFold
EqualFold(s, t) ==
  With(StringRunes(s), LAMBDA a :
  With(StringRunes(t), LAMBDA b :
    Len(a) = Len(b) /\ \A i \in 1..Len(a) : FoldRune(a[i]) = FoldRune(b[i])))

\* strings.TrimRight(s, "\x00")
RECURSIVE TrimRightNul(_)
TrimRightNul(s) ==
  IF s # <<>> /\ s[Len(s)] = 0 THEN TrimRightNul(SubSeq(s, 1, Len(s) - 1)) ELSE s

\* strings.Trim(s, "/")
RECURSIVE TrimLeftSlash(_)
TrimLeftSlash(s) ==
  IF s # <<>> /\ s[1] = 47 THEN TrimLeftSlash(Tail(s)) ELSE s

RECURSIVE TrimRightSlash(_)
TrimRightSlash(s) ==
  IF s # <<>> /\ s[Len(s)] = 47 THEN TrimRightSlash(SubSeq(s, 1, Len(s) - 1)) ELSE s

TrimSlash(s) == TrimRightSlash(TrimLeftSlash(s))

\* strings.Split(s, "/"): always at least one part.
RECURSIVE SplitFrom(_, _)
SplitFrom(s, cur) ==
  IF s = <<>> THEN <<cur>>
  ELSE IF Head(s) = 47 THEN <<cur>> \o SplitFrom(Tail(s), <<>>)
  ELSE SplitFrom(Tail(s), Append(cur, Head(s)))

SplitSlash(s) == SplitFrom(s, <<>>)

\* strings.ReplaceAll(p, "\\", "/")
ReplaceBackslash(p) == [i \in 1..Len(p) |-> IF p[i] = 92 THEN 47 ELSE p[i]]

normalizePath(p) ==
  With(ReplaceBackslash(p), LAMBDA q :
    IF q # <<>> /\ q[1] = 47 THEN q ELSE <<47>> \o q)

(***************************************************************************)
(* Timestamps                                                              *)
(***************************************************************************)
NullTime == [null |-> TRUE, year |-> 0, month |-> 0, day |-> 0,
             hour |-> 0, minute |-> 0, second |-> 0]

IsLeap(year) == year % 4 = 0 /\ (year % 100 # 0 \/ year % 400 = 0)

DaysIn(year, month) ==
  IF month = 2 THEN (IF IsLeap(year) THEN 29 ELSE 28)
  ELSE IF month \in {4, 6, 9, 11} THEN 30 ELSE 31

\* time.Date for a month in 1..12 and a day in 1..31: a day past the end of
\* the month is carried into the next month.  The location is taken to have
\* no clock changes.
Date(year, month, day, hour, minute, second) ==
  IF day > DaysIn(year, month)
  THEN [null |-> FALSE, year |-> year, month |-> month + 1,
        day |-> day - DaysIn(year, month),
        hour |-> hour, minute |-> minute, second |-> second]
  ELSE [null |-> FALSE, year |-> year, month |-> month, day |-> day,
        hour |-> hour, minute |-> minute, second |-> second]

exfatTimeNoRangeCheck(timestamp) ==
  [null |-> timestamp = 0,
   year |-> (((timestamp \div 65536) \div 512) % 128) + 1980,
   month |-> ((timestamp \div 65536) \div 32) % 16,
   day |-> (timestamp \div 65536) % 32,
   hour |-> ((timestamp % 65536) \div 2048) % 32,
   minute |-> ((timestamp % 65536) \div 32) % 64,
   second |-> ((timestamp % 65536) % 32) * 2]

exfatTimeToTime(timestamp) ==
  LET date == timestamp \div 65536
      tm == timestamp % 65536
      year == ((date \div 512) % 128) + 1980
      month == (date \div 32) % 16
      day == date % 32
      hour == (tm \div 2048) % 32
      minute == (tm \div 32) % 64
      second == (tm % 32) * 2
  IN IF timestamp = 0 THEN NullTime
     ELSE IF month < 1 \/ month > 12 \/ day < 1 \/ day > 31
             \/ hour > 23 \/ minute > 59 \/ second > 59
     THEN NullTime
     ELSE Date(year, month, day, hour, minute, second)

(***************************************************************************)
(* Directory slots                                                         *)
(***************************************************************************)
NoUnits == <<>>

\* The units of a slot are kept without their trailing NUL padding.
PadUnits(units) == [i \in 1..NameUnits |-> IF i <= Len(units) THEN units[i] ELSE 0]

Slot(type, sc, attr, mtime, nl, fc, dl, units) ==
  [type |-> type, sc |-> sc, attr |-> attr, mtime |-> mtime,
   nl |-> nl, fc |-> fc, dl |-> dl, units |-> units]

\* 32 zero bytes.
ZeroSlot == Slot(0, 0, 0, 0, 0, 0, 0, NoUnits)

\* A slot of another type with a zero payload (e.g. a deleted entry, 0x05).
OtherSlot(type) == Slot(type, 0, 0, 0, 0, 0, 0, NoUnits)

FileSlot(sc, attr, mtime) == Slot(EntryTypeFile, sc, attr, mtime, 0, 0, 0, NoUnits)

StreamSlot(nl, fc, dl) == Slot(EntryTypeFileInfo, 0, 0, 0, nl, fc, dl, NoUnits)

\* A file-name slot: the units, NUL-padded to 15.
NameSlot(units) == Slot(EntryTypeFileName, 0, 0, 0, 0, 0, 0, units)

\* binary.Read of a slot into ExFATFileInfoEntry: NameLength is byte 3,
\* FirstCluster bytes 20..23, DataLength bytes 24..31.
AsStream(s) ==
  IF s.type = EntryTypeFileName
  THEN LET u == PadUnits(s.units)
       IN [NameLength |-> u[1] \div 256,
           FirstCluster |-> u[10] + 65536 * u[11],
           DataLength |-> u[12] + 65536 * u[13]]
  ELSE [NameLength |-> s.nl, FirstCluster |-> s.fc, DataLength |-> s.dl]

\* binary.Read of a slot into ExFATFileNameEntry: FileName is bytes 2..31.
AsName(s) ==
  IF s.type = EntryTypeFileName THEN PadUnits(s.units)
  ELSE IF s.type = EntryTypeFile
  THEN [i \in 1..NameUnits |->
          IF i = 2 THEN s.attr
          ELSE IF i = 6 THEN s.mtime % 65536
          ELSE IF i = 7 THEN s.mtime \div 65536
          ELSE 0]
  ELSE [i \in 1..NameUnits |->
          IF i = 1 THEN s.nl * 256
          ELSE IF i = 10 THEN s.fc % 65536
          ELSE IF i = 11 THEN s.fc \div 65536
          ELSE IF i = 12 THEN s.dl % 65536
          ELSE IF i = 13 THEN s.dl \div 65536
          ELSE 0]

(***************************************************************************)
(* The container: VHDFile (src/unnamed/part_000)                           *)
(*                                                                         *)
(* v = [isDynamic, bat, blockSize, currentSize, fileSize].  What a read    *)
(* leaves in buf is kept as runs, in order: [kind |-> "file", off, n] is   *)
(* n bytes taken from the container file at file offset off, "zero" is n   *)
(* bytes written as zero, and "stale" is n bytes of buf the read left as   *)
(* the caller passed them.                                                 *)
(***************************************************************************)
Run(kind, off, n) == IF n = 0 THEN <<>> ELSE <<[kind |-> kind, off |-> off, n |-> n]>>

\* os.File.ReadAt(buf, off) on a file of fileSize bytes: short reads are EOF.
fileReadAt(fileSize, off, len) ==
  With(IF off >= fileSize THEN 0 ELSE Min(len, fileSize - off), LAMBDA avail :
    [n |-> avail,
     err |-> IF avail < len THEN "EOF" ELSE "none",
     buf |-> Run("file", off, avail) \o Run("stale", 0, len - avail)])

zeroFillShort(toRead) == Run("zero", 0, toRead - 1) \o Run("stale", 0, Min(toRead, 1))

\* for i := 0; i < toRead; i++ { buf[i] = 0 }
zeroFill(toRead) == Run("zero", 0, toRead)

\* The loop of ReadAt for a dynamic disk; buf is what was filled so far.
RECURSIVE dynamicLoop(_, _, _, _, _)
dynamicLoop(vf, offset, len, bytesRead, buf) ==
  IF len > 0
  THEN LET blockIndex == offset \div vf.blockSize
           blockOffset == offset % vf.blockSize
           remaining == vf.blockSize - blockOffset
           toRead == IF len < remaining THEN len ELSE remaining
       IN IF blockIndex >= Len(vf.bat)
          THEN [n |-> bytesRead, err |-> "EOF", buf |-> buf \o Run("stale", 0, len)]
          ELSE With(IF vf.bat[blockIndex + 1] = BlockUnallocated
                    THEN zeroFill(toRead)
                    ELSE fileReadAt(vf.fileSize,
                                    vf.bat[blockIndex + 1] * SectorSize + blockOffset,
                                    toRead).buf,
                    LAMBDA filled :
                      dynamicLoop(vf, offset + toRead, len - toRead,
                                  bytesRead + toRead, buf \o filled))
  ELSE [n |-> bytesRead, err |-> "none", buf |-> buf]

\* VHDFile.ReadAt(buf, offset) with len(buf) = len.
ReadAt(vf, offset, len) ==
  IF ~vf.isDynamic THEN fileReadAt(vf.fileSize, offset, len)
  ELSE dynamicLoop(vf, offset, len, 0, <<>>)

\* VHDFile.Size()
Size(vf) == vf.currentSize

(***************************************************************************)
(* The exFAT reader: cluster arithmetic and cluster-chain reads            *)
(*                                                                         *)
(* f = [bytesPerCluster, clusterHeapStart, totalClusters, fat,             *)
(*      FirstClusterOfRootDir]; f.fat[c + 1] is the source's fs.fat[c].    *)
(***************************************************************************)
clusterToOffset(f, cluster) ==
  IF cluster < 2 THEN 0
  ELSE f.clusterHeapStart + (cluster - 2) * f.bytesPerCluster

nextValidCluster(f, cluster) ==
  IF cluster >= Len(f.fat) THEN cluster + 1
  ELSE LET next == f.fat[cluster + 1]
       IN IF next = EndOfClusterChain \/ next >= ReservedCluster
             \/ next < 2 \/ next > ClusterCeiling
          THEN cluster + 1
          ELSE next

chainDataReadOnly(size, reads, offset) == [size |-> offset, reads |-> reads, zeros |-> 0]

\* data := make([]byte, size), as returned: the runs read into it, then zeros.
chainData(size, reads, offset) ==
  [size |-> size, reads |-> reads, zeros |-> size - offset]

NoData == [size |-> 0, reads |-> <<>>, zeros |-> 0]

RECURSIVE chainLoop(_, _, _, _, _, _)
chainLoop(f, vf, size, cluster, offset, reads) ==
  IF cluster # EndOfClusterChain /\ offset < size
  THEN With(IF offset + f.bytesPerCluster > size
            THEN size - offset ELSE f.bytesPerCluster, LAMBDA readSize :
       With(Append(reads, [cluster |-> cluster, off |-> clusterToOffset(f, cluster),
                           n |-> readSize]), LAMBDA issued :
       With(nextValidCluster(f, cluster), LAMBDA next :
         IF ReadAt(vf, clusterToOffset(f, cluster), readSize).err # "none"
         THEN [err |-> "Io", data |-> NoData, issued |-> issued]
         ELSE IF next >= f.totalClusters
         THEN [err |-> "none", issued |-> issued,
               data |-> chainData(size, issued, offset + readSize)]
         ELSE chainLoop(f, vf, size, next, offset + readSize, issued))))
  ELSE [err |-> "none", issued |-> reads, data |-> chainData(size, reads, offset)]

readClusterChainOneMore(f, vf, startCluster, size) ==
  IF size = 0 THEN [err |-> "none", data |-> NoData, issued |-> <<>>]
  ELSE IF startCluster = 0 \/ startCluster >= ReservedCluster
  THEN [err |-> "InvalidCluster", data |-> NoData, issued |-> <<>>]
  ELSE chainLoop(f, vf, size + f.bytesPerCluster, startCluster, 0, <<>>)

\* readClusterChain: err, the data returned, and the positional reads issued.
readClusterChain(f, vf, startCluster, size) ==
  IF size = 0 THEN [err |-> "none", data |-> NoData, issued |-> <<>>]
  ELSE IF startCluster = 0 \/ startCluster >= ReservedCluster
  THEN [err |-> "InvalidCluster", data |-> NoData, issued |-> <<>>]
  ELSE chainLoop(f, vf, size, startCluster, 0, <<>>)

\* len(data)
RECURSIVE SumN(_)
SumN(reads) == IF reads = <<>> THEN 0 ELSE Head(reads).n + SumN(Tail(reads))

DataLen(data) == SumN(data.reads) + data.zeros

(***************************************************************************)
(* Directory parsing                                                       *)
(*                                                                         *)
(* buf[i] is slot i of dirData, n the number of whole slots in it          *)
(* (len(dirData) / 32), and offset counts slots (the source's offset /     *)
(* 32).  binary.Read of a full 32-byte slice cannot fail, so its error     *)
(* branches are not modelled.                                              *)
(***************************************************************************)
\* The file-name loop of a parser: the offset it stops at and the name read.
RECURSIVE nameLoop(_, _, _, _, _, _, _)
nameLoop(buf, n, offset, i, secondaryCount, nameLength, fileName) ==
  IF i < secondaryCount - 1 /\ offset + 1 <= n
  THEN With(fileName \o Utf16ToString(AsName(buf[offset + 1])), LAMBDA name :
         IF Len(name) >= nameLength
         THEN [offset |-> offset, fileName |-> name]
         ELSE nameLoop(buf, n, offset + 1, i + 1, secondaryCount, nameLength, name))
  ELSE [offset |-> offset, fileName |-> fileName]

\* fileName = strings.TrimRight(fileName, "\x00"); fileName[:nameLength]
cleanName(fileName, nameLength) ==
  With(TrimRightNul(fileName), LAMBDA t :
    IF Len(t) > nameLength THEN Take(t, nameLength) ELSE t)

isDirAttr(attr) == (attr \div AttrDirectory) % 2 = 1

\* The slots that are neither a file entry nor the end mark are stepped
\* over one by one (offset += 32; continue): the offset of the first slot
\* from offset that is one of the two, or n when there is none.  The
\* search goes by stretches of DirClusters slots, which keeps the recursion
\* shallow.
RECURSIVE SkipOthers(_, _, _)
SkipOthers(buf, n, offset) ==
  LET hi == Min(n, offset + DirClusters)
      S == {j \in offset..(hi - 1) :
              buf[j + 1].type \in {EntryTypeEndOfDirectory, EntryTypeFile}}
  IN IF offset >= n THEN n
     ELSE IF S # {} THEN CHOOSE j \in S : \A k \in S : j <= k
     ELSE SkipOthers(buf, n, hi)

\* The slot loop of readDirectoryEntries over the buffer read.
RECURSIVE parseDirEntries(_, _, _, _)
parseDirEntries(buf, n, offset0, entries) ==
  With(SkipOthers(buf, n, offset0), LAMBDA offset :
  IF offset + 1 > n THEN [entries |-> entries, panic |-> FALSE]
  ELSE With(buf[offset + 1], LAMBDA fileEntry :
    IF fileEntry.type = EntryTypeEndOfDirectory
    THEN [entries |-> entries, panic |-> FALSE]
    ELSE IF offset + 2 > n
    THEN \* dirData[offset:offset+32] with offset = len(dirData)
         [entries |-> entries, panic |-> TRUE]
    ELSE With(AsStream(buf[offset + 2]), LAMBDA fileInfoEntry :
         With(nameLoop(buf, n, offset + 2, 0, fileEntry.sc,
                       fileInfoEntry.NameLength, <<>>), LAMBDA nl :
         With(cleanName(nl.fileName, fileInfoEntry.NameLength), LAMBDA fileName :
           LET isDir == isDirAttr(fileEntry.attr)
               c0 == fileInfoEntry.FirstCluster
               c1 == IF isDir /\ (c0 = 0 \/ c0 >= ReservedCluster) THEN 0 ELSE c0
               cluster == IF c1 > ClusterCeiling THEN 0 ELSE c1
               skip == fileName = <<>> \/ (c1 > ClusterCeiling /\ ~isDir)
               entry == [Name |-> fileName, Size |-> fileInfoEntry.DataLength,
                         IsDir |-> isDir,
                         ModTime |-> exfatTimeToTime(fileEntry.mtime),
                         cluster |-> cluster]
           IN parseDirEntries(buf, n, nl.offset,
                              IF skip THEN entries ELSE Append(entries, entry)))))))

\* The slot loop of readDirectory over the buffer read.
RECURSIVE parseListing(_, _, _, _)
parseListing(buf, n, offset0, entries) ==
  With(SkipOthers(buf, n, offset0), LAMBDA offset :
  IF offset + 1 > n THEN [entries |-> entries, panic |-> FALSE]
  ELSE With(buf[offset + 1], LAMBDA fileEntry :
    IF fileEntry.type = EntryTypeEndOfDirectory
    THEN [entries |-> entries, panic |-> FALSE]
    ELSE IF offset + 2 > n
    THEN [entries |-> entries, panic |-> FALSE]
    ELSE With(AsStream(buf[offset + 2]), LAMBDA fileInfoEntry :
         With(nameLoop(buf, n, offset + 2, 0, fileEntry.sc,
                       fileInfoEntry.NameLength, <<>>), LAMBDA nl :
         With(cleanName(nl.fileName, fileInfoEntry.NameLength), LAMBDA fileName :
           LET entry == [Name |-> fileName, Size |-> fileInfoEntry.DataLength,
                         IsDir |-> isDirAttr(fileEntry.attr),
                         ModTime |-> exfatTimeToTime(fileEntry.mtime)]
           IN parseListing(buf, n, nl.offset,
                           IF fileName = <<>> THEN entries
                           ELSE Append(entries, entry)))))))

(***************************************************************************)
(* The directory buffer a chain read returns, as slots.  d[c] describes    *)
(* cluster c of the container: its first slots, and the slot that fills    *)
(* the rest of it.  A read of offset 0 (cluster < 2) returns the boot      *)
(* sector: its jump byte, then its zero reserved bytes.                    *)
(***************************************************************************)
SlotsPerCluster(f) == f.bytesPerCluster \div SlotSize

BootSlot(j) == IF j = 1 THEN OtherSlot(235) ELSE ZeroSlot

ClusterSlot(c, j) == IF j <= Len(c.slots) THEN c.slots[j] ELSE c.pad

dirBuffer(f, d, data) ==
  LET spc == SlotsPerCluster(f)
  IN [i \in 1..(data.size \div SlotSize) |->
        LET k == ((i - 1) \div spc) + 1
            j == ((i - 1) % spc) + 1
        IN IF k > Len(data.reads) THEN ZeroSlot
           ELSE IF data.reads[k].cluster < 2 THEN BootSlot(j)
           ELSE ClusterSlot(d[data.reads[k].cluster], j)]

invalidDirClusterNever(cluster) == FALSE

invalidDirCluster(cluster) ==
  cluster = 0 \/ cluster >= ReservedCluster \/ cluster > ClusterCeiling

\* readDirectoryEntries(cluster): err, entries, and the cluster reads issued.
readDirectoryEntries(f, vf, d, cluster) ==
  IF invalidDirCluster(cluster)
  THEN [err |-> "none", entries |-> <<>>, issued |-> <<>>]
  ELSE With(readClusterChain(f, vf, cluster, f.bytesPerCluster * DirClusters),
            LAMBDA r :
         IF r.err # "none"
         THEN [err |-> r.err, entries |-> <<>>, issued |-> r.issued]
         ELSE With(parseDirEntries(dirBuffer(f, d, r.data),
                                   r.data.size \div SlotSize, 0, <<>>), LAMBDA p :
                IF p.panic
                THEN [err |-> "panic", entries |-> <<>>, issued |-> r.issued]
                ELSE [err |-> "none", entries |-> p.entries, issued |-> r.issued]))

\* readDirectory(cluster)
readDirectory(f, vf, d, cluster) ==
  IF invalidDirCluster(cluster)
  THEN [err |-> "none", entries |-> <<>>, issued |-> <<>>]
  ELSE With(readClusterChain(f, vf, cluster, f.bytesPerCluster * DirClusters),
            LAMBDA r :
         IF r.err # "none"
         THEN [err |-> r.err, entries |-> <<>>, issued |-> r.issued]
         ELSE [err |-> "none", issued |-> r.issued,
               entries |-> parseListing(dirBuffer(f, d, r.data),
                                        r.data.size \div SlotSize, 0, <<>>).entries])

(***************************************************************************)
(* Path resolution, ListDir, ReadFile                                      *)
(***************************************************************************)
NoEntry == [Name |-> <<>>, Size |-> 0, IsDir |-> FALSE, ModTime |-> NullTime,
            cluster |-> 0]

RootEntry(f) == [Name |-> <<47>>, Size |-> 0, IsDir |-> TRUE, ModTime |-> NullTime,
                 cluster |-> f.FirstClusterOfRootDir]

\* The inner loop of getEntry over one directory's entries, for parts[i]:
\* "return" the entry, "descend" into it, or "none" when nothing is found.
RECURSIVE scanEntries(_, _, _)
scanEntries(dirEntries, part, isLast) ==
  IF dirEntries = <<>> THEN [kind |-> "none", entry |-> NoEntry]
  ELSE With(Head(dirEntries), LAMBDA entry :
       With(EqualFold(entry.Name, part), LAMBDA match :
         IF match /\ isLast THEN [kind |-> "return", entry |-> entry]
         ELSE IF match /\ entry.IsDir THEN [kind |-> "descend", entry |-> entry]
         ELSE scanEntries(Tail(dirEntries), part, isLast)))

\* The loop of getEntry over parts, from index i (1-based).
RECURSIVE resolveParts(_, _, _, _, _, _)
resolveParts(f, vf, d, parts, i, currentCluster) ==
  IF i > Len(parts) THEN [err |-> "Unresolved", entry |-> NoEntry]
  ELSE IF parts[i] = <<>> THEN resolveParts(f, vf, d, parts, i + 1, currentCluster)
  ELSE With(readDirectoryEntries(f, vf, d, currentCluster), LAMBDA dir :
         IF dir.err # "none" THEN [err |-> dir.err, entry |-> NoEntry]
         ELSE With(scanEntries(dir.entries, parts[i], i = Len(parts)), LAMBDA hit :
                IF hit.kind = "return" THEN [err |-> "none", entry |-> hit.entry]
                ELSE IF hit.kind = "descend"
                THEN resolveParts(f, vf, d, parts, i + 1, hit.entry.cluster)
                ELSE [err |-> "PathNotFound", entry |-> NoEntry]))

getEntry(f, vf, d, path) ==
  With(SplitSlash(TrimSlash(path)), LAMBDA parts :
    IF Len(parts) = 1 /\ parts[1] = <<>>
    THEN [err |-> "none", entry |-> RootEntry(f)]
    ELSE resolveParts(f, vf, d, parts, 1, f.FirstClusterOfRootDir))

\* The result of an operation: every operation fills the fields it returns.
Result(err, entry, entries, data, issued) ==
  [err |-> err, entry |-> entry, entries |-> entries, data |-> data,
   issued |-> issued]

ListDir(f, vf, d, path0) ==
  With(normalizePath(path0), LAMBDA path :
    IF path = <<47>> \/ path = <<>>
    THEN With(readDirectory(f, vf, d, f.FirstClusterOfRootDir), LAMBDA r :
           Result(r.err, NoEntry, r.entries, NoData, r.issued))
    ELSE With(getEntry(f, vf, d, path), LAMBDA e :
           IF e.err # "none" THEN Result(e.err, NoEntry, <<>>, NoData, <<>>)
           ELSE IF ~e.entry.IsDir
           THEN Result("NotADirectory", NoEntry, <<>>, NoData, <<>>)
           ELSE With(readDirectory(f, vf, d, e.entry.cluster), LAMBDA r :
                  Result(r.err, NoEntry, r.entries, NoData, r.issued))))

ReadFileNoDirCheck(f, vf, d, path) ==
  With(getEntry(f, vf, d, path), LAMBDA e :
    IF e.err # "none" THEN Result(e.err, NoEntry, <<>>, NoData, <<>>)
    ELSE With(readClusterChain(f, vf, e.entry.cluster, e.entry.Size), LAMBDA r :
           Result(r.err, NoEntry, <<>>, r.data, r.issued)))

ReadFile(f, vf, d, path) ==
  With(getEntry(f, vf, d, path), LAMBDA e :
    IF e.err # "none" THEN Result(e.err, NoEntry, <<>>, NoData, <<>>)
    ELSE IF e.entry.IsDir THEN Result("IsDirectory", NoEntry, <<>>, NoData, <<>>)
    ELSE With(readClusterChain(f, vf, e.entry.cluster, e.entry.Size), LAMBDA r :
           Result(r.err, NoEntry, <<>>, r.data, r.issued)))

(***************************************************************************)
(* Bounds                                                                  *)
(***************************************************************************)
\* bytesPerCluster = 2^ClusterShift
ClusterShift == 9
\* ClusterCount of the volumes is MaxClusters - 2 or MaxClusters
MaxClusters == 8

(***************************************************************************)
(* The volumes of the main specification.  Cluster 2 is the root           *)
(* directory, cluster 3 the directory "Ab", the clusters from 4 hold file  *)
(* data.  The root holds "Ab" and the file "Fx"; "Ab" holds the file "cD". *)
(***************************************************************************)
BytesPerCluster == Pow2(ClusterShift)

HeapStart == 2 * BytesPerCluster

NameAb == <<65, 98>>
NameFx == <<70, 120>>
NameCd == <<99, 68>>
NameZz == <<122, 122>>

\* 2024-01-02 03:04:06
SomeTime == 22562 * 65536 + 6275

\* FILE_ATTRIBUTE_ARCHIVE
AttrArchive == 2 * AttrDirectory

EntrySet(attr, mtime, name, fc, dl) ==
  <<FileSlot(2, attr, mtime), StreamSlot(Len(name), fc, dl), NameSlot(name)>>

\* A cluster holding the slots given, then pad slots to its end.
ClusterOf(slots, pad) == [slots |-> slots, pad |-> pad]

ClustersFor(size) == (size + BytesPerCluster - 1) \div BytesPerCluster

Layouts == {"chain", "nochain", "loop", "frag", "short"}

\* The FAT entry of cluster c, for a file of k clusters starting at s.
FatEntry(layout, s, k, c) ==
  IF c = 0 THEN ReservedCluster
  ELSE IF c <= 3 THEN EndOfClusterChain
  ELSE IF s = 0 \/ k = 0 THEN 0
  ELSE IF layout = "chain"
  THEN (IF c >= s /\ c < s + k - 1 THEN c + 1
        ELSE IF c = s + k - 1 THEN EndOfClusterChain ELSE 0)
  ELSE IF layout = "loop" THEN (IF c = s THEN s ELSE 0)
  ELSE IF layout = "frag"
  THEN (IF c = s THEN s + 2
        ELSE IF c = s + 2 THEN s + 1
        ELSE IF c = s + 1 THEN EndOfClusterChain ELSE 0)
  ELSE IF layout = "short" THEN (IF c = s THEN EndOfClusterChain ELSE 0)
  ELSE 0

MkFs(total, layout, s, size) ==
  [bytesPerCluster |-> BytesPerCluster,
   clusterHeapStart |-> HeapStart,
   totalClusters |-> total,
   FirstClusterOfRootDir |-> 2,
   fat |-> [i \in 1..(total + 2) |-> FatEntry(layout, s, ClustersFor(size), i - 1)]]

MkDisk(total, s, size, rootFull) ==
  [c \in 2..(total + 1) |->
     IF c = 2
     THEN ClusterOf(EntrySet(AttrDirectory, SomeTime, NameAb, 3, BytesPerCluster)
                      \o EntrySet(AttrArchive, SomeTime, NameFx, s, size),
                    IF rootFull THEN OtherSlot(5) ELSE ZeroSlot)
     ELSE IF c = 3
     THEN ClusterOf(EntrySet(AttrArchive, 0, NameCd, total + 1, 10), ZeroSlot)
     ELSE ClusterOf(<<>>, OtherSlot(65))]

\* A raw image (or fixed disk read as the source reads it): the file itself.
MkRaw(fileSize) ==
  [isDynamic |-> FALSE, bat |-> <<>>, blockSize |-> 0,
   currentSize |-> fileSize, fileSize |-> fileSize]

Totals == {MaxClusters - 2, MaxClusters}

Starts == {0, 4, 5, MaxClusters + 3}

Sizes == {0, 1, BytesPerCluster + 1, 3 * BytesPerCluster}

(***************************************************************************)
(* The paths of the calls                                                  *)
(***************************************************************************)
RECURSIVE Join(_, _)
Join(segs, sep) ==
  IF segs = <<>> THEN <<>>
  ELSE IF Len(segs) = 1 THEN segs[1]
  ELSE segs[1] \o sep \o Join(Tail(segs), sep)

FlipCase(name) ==
  [i \in 1..Len(name) |->
     IF name[i] >= 65 /\ name[i] <= 90 THEN name[i] + 32
     ELSE IF name[i] >= 97 /\ name[i] <= 122 THEN name[i] - 32
     ELSE name[i]]

SegLists ==
  {<<>>, <<NameAb>>, <<NameFx>>, <<FlipCase(NameFx)>>, <<NameZz>>,
   <<NameAb, NameCd>>, <<FlipCase(NameAb), FlipCase(NameCd)>>, <<NameFx, NameCd>>}

Styles == {"abs", "rel", "bs", "dbl"}

MkPath(style, segs) ==
  IF style = "abs" THEN <<47>> \o Join(segs, <<47>>)
  ELSE IF style = "rel" THEN Join(segs, <<47>>)
  ELSE IF style = "bs" THEN <<92>> \o Join(segs, <<92>>)
  ELSE <<47>> \o Join(segs, <<47, 47>>) \o <<47>>

Paths == {MkPath(st, sg) : st \in Styles, sg \in SegLists}

(***************************************************************************)
(* The main specification: one call on a mounted volume.  The reader       *)
(* keeps no state between calls, so a behaviour holds one call.            *)
(***************************************************************************)
NoResult == Result("none", NoEntry, <<>>, NoData, <<>>)

NoCall == [op |-> "none", path |-> <<>>, res |-> NoResult]

Init ==
  \E total \in Totals, layout \in Layouts, s \in Starts, size \in Sizes,
     rootFull \in BOOLEAN :
    /\ fs = MkFs(total, layout, s, size)
    /\ disk = MkDisk(total, s, size, rootFull)
    /\ v = MkRaw(HeapStart + total * BytesPerCluster)
    /\ call = NoCall
    /\ dirData = <<>>

GetEntryCall(p) ==
  /\ call.op = "none"
  /\ call' = [op |-> "getEntry", path |-> p,
              res |-> With(getEntry(fs, v, disk, p), LAMBDA e :
                        Result(e.err, e.entry, <<>>, NoData, <<>>))]
  /\ UNCHANGED <<fs, disk, v, dirData>>

ListDirCall(p) ==
  /\ call.op = "none"
  /\ call' = [op |-> "ListDir", path |-> p, res |-> ListDir(fs, v, disk, p)]
  /\ UNCHANGED <<fs, disk, v, dirData>>

ReadFileCall(p) ==
  /\ call.op = "none"
  /\ call' = [op |-> "ReadFile", path |-> p, res |-> ReadFile(fs, v, disk, p)]
  /\ UNCHANGED <<fs, disk, v, dirData>>

Next ==
  \E p \in Paths : GetEntryCall(p) \/ ListDirCall(p) \/ ReadFileCall(p)

Spec == Init /\ [][Next]_vars

(***************************************************************************)
(* Properties of the main specification                                    *)
(***************************************************************************)
IsLetter(b) == (b >= 65 /\ b <= 90) \/ (b >= 97 /\ b <= 122)

\* p with the ASCII letters at the positions S changed in case
FlipAt(p, S) ==
  [i \in 1..Len(p) |-> IF i \in S THEN FlipCase(<<p[i]>>)[1] ELSE p[i]]

CaseVariants(p) ==
  {FlipAt(p, S) : S \in SUBSET {i \in 1..Len(p) : IsLetter(p[i])}}

\* The FAT links the clusters s..s+k-1 explicitly: s -> s+1 -> ... -> end.
FatLinked(f, s, k) ==
  /\ \A c \in s..(s + k - 2) : f.fat[c + 1] = c + 1
  /\ f.fat[s + k] = EndOfClusterChain

\* The FAT entries of the clusters s..s+k-1 are zero (the NoFatChain layout).
FatZero(f, s, k) == \A c \in s..(s + k - 1) : f.fat[c + 1] = 0

\* The reads that supply the clusters s..s+k-1 truncated to size bytes.
ContiguousReads(f, s, k, size) ==
  [i \in 1..k |->
     [cluster |-> s + i - 1, off |-> clusterToOffset(f, s + i - 1),
      n |-> IF i * f.bytesPerCluster > size
            THEN size - (i - 1) * f.bytesPerCluster ELSE f.bytesPerCluster]]

C2_CaseInsensitive ==
  (call.op = "getEntry" /\ call.res.err = "none") =>
    \A q \in CaseVariants(call.path) :
      With(getEntry(fs, v, disk, q), LAMBDA e :
        e.err = "none" /\ e.entry = call.res.entry)

\* "/aB/Cd" resolved to the entry stored as "cD" in the directory "Ab".
C2_Witness ==
  /\ call.op = "getEntry"
  /\ call.res.err = "none"
  /\ call.path = MkPath("abs", <<FlipCase(NameAb), FlipCase(NameCd)>>)
  /\ call.res.entry.Name = NameCd

\* C4: a file stored in the contiguous clusters s..s+k-1 of the volume is
\* read as the concatenation of those clusters truncated to its size, when
\* the FAT links them explicitly and when their FAT entries are zero.
C4_ContiguousEquivalence ==
  call.op = "ReadFile" =>
    With(getEntry(fs, v, disk, call.path), LAMBDA e :
      LET s == e.entry.cluster
          k == (e.entry.Size + fs.bytesPerCluster - 1) \div fs.bytesPerCluster
      IN (/\ e.err = "none" /\ ~e.entry.IsDir
          /\ k > 0 /\ s >= 2 /\ s + k - 1 <= fs.totalClusters + 1
          /\ (FatLinked(fs, s, k) \/ FatZero(fs, s, k)))
         => /\ call.res.err = "none"
            /\ call.res.data.reads = ContiguousReads(fs, s, k, e.entry.Size)
            /\ call.res.data.zeros = 0)

\* C6: a chain read issues no read after the read of a cluster whose FAT
\* entry is the end-of-chain mark.
C6_StopsAtEndOfChain ==
  call.op \in {"ListDir", "ReadFile"} =>
    \A i \in 1..(Len(call.res.issued) - 1) :
      LET c == call.res.issued[i].cluster
      IN ~(c < Len(fs.fat) /\ fs.fat[c + 1] = EndOfClusterChain)

\* C9: every operation gives, for a path, the result it gives for the
\* normalized path (forward slashes and a leading '/').
C9_PathNormalized ==
  /\ call.op = "ReadFile" =>
       call.res = ReadFile(fs, v, disk, normalizePath(call.path))
  /\ call.op = "ListDir" =>
       call.res = ListDir(fs, v, disk, normalizePath(call.path))
  /\ call.op = "getEntry" =>
       call.res.entry = getEntry(fs, v, disk, normalizePath(call.path)).entry

\* C10: ReadFile of a path that resolves to a directory fails with
\* IsDirectory and reads no cluster of data; ListDir of a path that resolves
\* to a file fails with NotADirectory and returns no entries.
C10_KindMismatch ==
  /\ call.op = "ReadFile" =>
       With(getEntry(fs, v, disk, call.path), LAMBDA e :
         (e.err = "none" /\ e.entry.IsDir) =>
           /\ call.res.err = "IsDirectory"
           /\ call.res.data = NoData
           /\ call.res.issued = <<>>)
  /\ call.op = "ListDir" =>
       With(getEntry(fs, v, disk, normalizePath(call.path)), LAMBDA e :
         (e.err = "none" /\ ~e.entry.IsDir) =>
           /\ call.res.err = "NotADirectory"
           /\ call.res.entries = <<>>)

\* ReadFile was called on the directory "/Ab".
C10_Witness ==
  /\ call.op = "ReadFile"
  /\ call.path = MkPath("abs", <<NameAb>>)
  /\ call.res.err = "IsDirectory"

(***************************************************************************)
(* The container specification: one ReadAt on an opened container.         *)
(* A fixed disk is its data followed by the 512-byte footer; a raw image   *)
(* is the file itself; a dynamic disk has a BAT of sector numbers, to      *)
(* blocks the file holds whole or cut short.                               *)
(***************************************************************************)
\* bytes in a block of the dynamic disks
BlockBytes == 4
\* entries in the BAT of the dynamic disks, at most
MaxBlocks == 3

DataBytes == MaxBlocks * BlockBytes

RECURSIVE SeqsUpTo(_, _)
SeqsUpTo(S, n) ==
  IF n = 0 THEN {<<>>}
  ELSE LET shorter == SeqsUpTo(S, n - 1)
       IN shorter \cup {Append(q, x) : q \in {t \in shorter : Len(t) = n - 1}, x \in S}

Bats == SeqsUpTo({BlockUnallocated, 1, 2}, MaxBlocks) \ {<<>>}

MkFixed(dataSize) ==
  [isDynamic |-> FALSE, bat |-> <<>>, blockSize |-> 0,
   currentSize |-> dataSize, fileSize |-> dataSize + SectorSize]

MkDynamic(bat, currentSize, fileSize) ==
  [isDynamic |-> TRUE, bat |-> bat, blockSize |-> BlockBytes,
   currentSize |-> currentSize, fileSize |-> fileSize]

Containers ==
  {MkRaw(DataBytes), MkFixed(DataBytes)}
    \cup {MkDynamic(bat, Len(bat) * BlockBytes - slack, 2 * SectorSize + held) :
            bat \in Bats, slack \in {0, 1}, held \in {2, BlockBytes}}

Offsets == 0..(DataBytes + 1) \cup {DataBytes + SectorSize - 1, DataBytes + SectorSize}

Lens == 0..(2 * BlockBytes + 1)

InitVHD ==
  /\ v \in Containers
  /\ call = NoCall
  /\ fs = <<>>
  /\ disk = <<>>
  /\ dirData = <<>>

ReadAtCall(o, n) ==
  /\ call.op = "none"
  /\ call' = [op |-> "ReadAt", offset |-> o, len |-> n, res |-> ReadAt(v, o, n)]
  /\ UNCHANGED <<fs, disk, v, dirData>>

NextVHD == \E o \in Offsets, n \in Lens : ReadAtCall(o, n)

SpecVHD == InitVHD /\ [][NextVHD]_vars

\* The blocks a read of n bytes at offset o touches.
BlocksOf(vf, o, n) ==
  IF n = 0 THEN {} ELSE (o \div vf.blockSize)..((o + n - 1) \div vf.blockSize)

Unallocated(vf, b) == b < Len(vf.bat) /\ vf.bat[b + 1] = BlockUnallocated

\* buf holds n bytes, all written as zero
AllZero(buf, n) == SumN(buf) = n /\ \A i \in 1..Len(buf) : buf[i].kind = "zero"

\* C3 as stated: a read of a dynamic disk that starts in an unallocated
\* block returns as many zero bytes as were asked for.
C3_StartsUnallocated ==
  (/\ call.op = "ReadAt" /\ v.isDynamic
   /\ Unallocated(v, call.offset \div v.blockSize))
  => /\ call.res.n = call.len
     /\ AllZero(call.res.buf, call.len)

\* C3: a read of a dynamic disk whose bytes all lie in unallocated blocks
\* of the BAT returns, without error, as many zero bytes as were asked for.
C3_UnallocatedReadsZero ==
  (/\ call.op = "ReadAt" /\ v.isDynamic
   /\ \A b \in BlocksOf(v, call.offset, call.len) : Unallocated(v, b))
  => /\ call.res.n = call.len
     /\ call.res.err = "none"
     /\ AllZero(call.res.buf, call.len)

\* A read crossed from one unallocated block into the next.
C3_Witness ==
  /\ call.op = "ReadAt" /\ v.isDynamic
  /\ call.len > BlockBytes
  /\ \A b \in BlocksOf(v, call.offset, call.len) : Unallocated(v, b)
  /\ call.res.n = call.len

\* C8: a read of at least one byte at or past Size() returns EOF, and one
\* that starts before Size() and runs past it returns EOF with the count
\* of the bytes before Size().
C8_EofAtLogicalEnd ==
  (call.op = "ReadAt" /\ call.len > 0) =>
    /\ call.offset >= Size(v) => call.res.err = "EOF"
    /\ (call.offset < Size(v) /\ call.offset + call.len > Size(v)) =>
         call.res.err = "EOF" /\ call.res.n = Size(v) - call.offset

(***************************************************************************)
(* The directory specification: the two parsers applied to one directory   *)
(* buffer of bytesPerCluster*16 bytes.  The buffer holds one entry set,    *)
(* after a run of other entries, complete or cut short by the buffer's end.*)
(***************************************************************************)
DirSlotCount == (BytesPerCluster * DirClusters) \div SlotSize

UnitsFx == <<70, 120>>
\* U+65E5 U+672C
UnitsNihon == <<26085, 26412>>
\* U+00E9 'a'
UnitsMixed == <<233, 97>>
UnitsLong == [i \in 1..(NameUnits + 1) |-> 96 + i]
UnitsLongWide == [i \in 1..(NameUnits + 1) |-> 26085]

DirNames == {UnitsFx, UnitsNihon, UnitsMixed, UnitsLong, UnitsLongWide}

RECURSIVE NameSlots(_)
NameSlots(units) ==
  IF units = <<>> THEN <<>>
  ELSE <<NameSlot(Take(units, NameUnits))>> \o NameSlots(Drop(units, NameUnits))

\* An entry set for the name given, declaring nl code units and sc
\* secondary entries.
DirSet(units, nl, sc) ==
  <<FileSlot(sc, AttrArchive, SomeTime), StreamSlot(nl, 4, 1)>> \o NameSlots(units)

\* The buffer: prefixLen other entries, the slots given, then zero slots.
Place(prefixLen, slots) ==
  [i \in 1..DirSlotCount |->
     IF i <= prefixLen THEN OtherSlot(129)
     ELSE IF i - prefixLen <= Len(slots) THEN slots[i - prefixLen]
     ELSE ZeroSlot]

DirBuffers ==
  {Place(IF fromEnd = 0 THEN front ELSE DirSlotCount - fromEnd,
         DirSet(units, Len(units) - less, 1 + Len(NameSlots(units)) + more)) :
     units \in DirNames, less \in {0, 1}, more \in {0, 1},
     front \in {0, 1}, fromEnd \in 0..4}

InitDir ==
  /\ dirData \in DirBuffers
  /\ call = NoCall
  /\ fs = <<>>
  /\ disk = <<>>
  /\ v = <<>>

ParseEntriesCall ==
  /\ call.op = "none"
  /\ call' = [op |-> "readDirectoryEntries",
              res |-> parseDirEntries(dirData, Len(dirData), 0, <<>>)]
  /\ UNCHANGED <<fs, disk, v, dirData>>

ParseListingCall ==
  /\ call.op = "none"
  /\ call' = [op |-> "readDirectory",
              res |-> parseListing(dirData, Len(dirData), 0, <<>>)]
  /\ UNCHANGED <<fs, disk, v, dirData>>

NextDir == ParseEntriesCall \/ ParseListingCall

SpecDir == InitDir /\ [][NextDir]_vars

\* The slot of the first file entry of the buffer (0: there is none).
FirstFile(buf) ==
  LET i == SkipOthers(buf, Len(buf), 0) + 1
  IN IF i > Len(buf) \/ buf[i].type # EntryTypeFile THEN 0 ELSE i

\* The entry set at slot i lies in the buffer whole: a stream extension,
\* then name entries for at least the NameLength code units it declares.
WholeSet(buf, i) ==
  /\ i > 0
  /\ buf[i].sc >= 2
  /\ i + buf[i].sc <= Len(buf)
  /\ buf[i + 1].type = EntryTypeFileInfo
  /\ \A j \in 2..buf[i].sc : buf[i + j].type = EntryTypeFileName
  /\ AsStream(buf[i + 1]).NameLength >= 1
  /\ AsStream(buf[i + 1]).NameLength <= (buf[i].sc - 1) * NameUnits

\* The code units of the name entries of the set at slot i, concatenated.
RECURSIVE SetUnits(_, _, _)
SetUnits(buf, i, j) ==
  IF j > buf[i].sc THEN <<>>
  ELSE AsName(buf[i + j]) \o SetUnits(buf, i, j + 1)

\* C5: the name of an entry is the decoding of the first NameLength code
\* units of its name entries, with trailing NULs removed.
C5_NameIsNameLengthUnits ==
  (call.op \in {"readDirectoryEntries", "readDirectory"}
     /\ WholeSet(dirData, FirstFile(dirData)))
  => LET i == FirstFile(dirData)
     IN /\ call.res.entries # <<>>
        /\ call.res.entries[1].Name =
             TrimRightNul(Utf16ToString(
               Take(SetUnits(dirData, i, 2), AsStream(dirData[i + 1]).NameLength)))

\* C7: neither parser reads a slot past the end of the buffer.
C7_NoSlotPastBuffer ==
  call.op \in {"readDirectoryEntries", "readDirectory"} => ~call.res.panic

(***************************************************************************)
(* The specification of the entry rules: one call on a volume whose root   *)
(* also holds the directories "E0" and "E8", whose FirstCluster is 0 and   *)
(* 0xFFFFFFF8, and the file "Hg", whose FirstCluster is 0x10000001.        *)
(***************************************************************************)
NameE0 == <<69, 48>>
NameE8 == <<69, 56>>
NameHg == <<72, 103>>

RuleSets ==
  EntrySet(AttrDirectory, SomeTime, NameE0, 0, 0)
    \o EntrySet(AttrDirectory, SomeTime, NameE8, ReservedCluster, 0)
    \o EntrySet(AttrArchive, SomeTime, NameHg, ClusterCeiling + 1, 1)

MkRuleDisk(total, s, size, rootFull) ==
  [c \in 2..(total + 1) |->
     IF c = 2
     THEN ClusterOf(MkDisk(total, s, size, rootFull)[2].slots \o RuleSets,
                    MkDisk(total, s, size, rootFull)[2].pad)
     ELSE MkDisk(total, s, size, rootFull)[c]]

RulePaths ==
  {MkPath(st, <<name>>) : st \in Styles, name \in {NameE0, NameE8, NameHg}}
    \cup {MkPath(st, sg) : st \in {"abs"}, sg \in SegLists}

InitRules ==
  \E total \in Totals, layout \in {"chain", "nochain"},
     size \in {1, BytesPerCluster + 1}, rootFull \in BOOLEAN :
    /\ fs = MkFs(total, layout, 4, size)
    /\ disk = MkRuleDisk(total, 4, size, rootFull)
    /\ v = MkRaw(HeapStart + total * BytesPerCluster)
    /\ call = NoCall
    /\ dirData = <<>>

NextRules ==
  \E p \in RulePaths : GetEntryCall(p) \/ ListDirCall(p) \/ ReadFileCall(p)

SpecRules == InitRules /\ [][NextRules]_vars

\* The slots of the root cluster that open the entry set of a directory
\* whose on-disk FirstCluster is 0 or at least 0xFFFFFFF8.
NullDirSlots(d) ==
  {i \in 1..(Len(d[2].slots) - 2) :
     /\ d[2].slots[i].type = EntryTypeFile
     /\ isDirAttr(d[2].slots[i].attr)
     /\ (d[2].slots[i + 1].fc = 0 \/ d[2].slots[i + 1].fc >= ReservedCluster)}

\* C11: a directory entry whose FirstCluster is 0 or at least 0xFFFFFFF8 is
\* listed by its parent and resolved, as a directory with cluster 0, and
\* ListDir of its path returns no entries, no error, and reads no cluster.
C11_NullClusterDirectory ==
  \A i \in NullDirSlots(disk) :
    LET name == Utf16ToString(disk[2].slots[i + 2].units)
    IN /\ (call.op = "ListDir" /\ normalizePath(call.path) = <<47>>) =>
            /\ call.res.err = "none"
            /\ \E k \in 1..Len(call.res.entries) :
                 call.res.entries[k].Name = name /\ call.res.entries[k].IsDir
       /\ (call.op = "ListDir" /\ TrimSlash(normalizePath(call.path)) = name) =>
            /\ call.res.err = "none"
            /\ call.res.entries = <<>>
            /\ call.res.issued = <<>>
       /\ (call.op = "getEntry" /\ TrimSlash(call.path) = name) =>
            /\ call.res.err = "none"
            /\ call.res.entry.IsDir
            /\ call.res.entry.cluster = 0

\* ListDir("/E8") returned the empty list.
C11_Witness ==
  /\ call.op = "ListDir"
  /\ call.path = MkPath("abs", <<NameE8>>)
  /\ NullDirSlots(disk) # {}
  /\ call.res.err = "none"
  /\ call.res.entries = <<>>

\* C13: every name of a file that ListDir returns for a directory is
\* resolved by getEntry under that directory.
C13_ListedFilesResolve ==
  (call.op = "ListDir" /\ call.res.err = "none") =>
    \A k \in 1..Len(call.res.entries) :
      ~call.res.entries[k].IsDir =>
        getEntry(fs, v, disk,
                 normalizePath(call.path) \o <<47>> \o call.res.entries[k].Name).err
          = "none"

(***************************************************************************)
(* The timestamp specification: exfatTimeToTime applied to the timestamp   *)
(* drawn.                                                                  *)
(* The timestamps are composed from their fields; the year field stays     *)
(* below 64, so that the timestamp is below 2^31 (no test reads the year). *)
(***************************************************************************)
MkTimestamp(y, m, d, h, mi, s2) ==
  ((y * 16 + m) * 32 + d) * 65536 + (h * 64 + mi) * 32 + s2

Timestamps ==
  {MkTimestamp(y, m, d, h, mi, s2) :
     y \in {0, 20, 43, 44}, m \in 0..15, d \in {0, 1, 28, 29, 30, 31},
     h \in {0, 23, 24, 31}, mi \in {0, 59, 60, 63}, s2 \in {0, 29, 30, 31}}

InitTime ==
  /\ call \in {[op |-> "none", ts |-> ts] : ts \in Timestamps}
  /\ fs = <<>>
  /\ disk = <<>>
  /\ v = <<>>
  /\ dirData = <<>>

DecodeCall ==
  /\ call.op = "none"
  /\ call' = [op |-> "exfatTimeToTime", ts |-> call.ts,
              res |-> exfatTimeToTime(call.ts)]
  /\ UNCHANGED <<fs, disk, v, dirData>>

NextTime == DecodeCall

SpecTime == InitTime /\ [][NextTime]_vars

\* A date and time of the civil calendar.
LegalCivil(t) ==
  /\ t.month >= 1 /\ t.month <= 12
  /\ t.day >= 1 /\ t.day <= DaysIn(t.year, t.month)
  /\ t.hour >= 0 /\ t.hour <= 23
  /\ t.minute >= 0 /\ t.minute <= 59
  /\ t.second >= 0 /\ t.second <= 59

\* The bits of ts hold a field that is out of range.
FieldOutOfRange(ts) ==
  \/ ((ts \div 2097152) % 16) \notin 1..12
  \/ ((ts \div 65536) % 32) \notin 1..31
  \/ ((ts \div 2048) % 32) > 23
  \/ ((ts \div 32) % 64) > 59
  \/ (ts % 32) * 2 > 59

\* C12: a timestamp that is 0 or holds a field out of range decodes to the
\* null time, and every other result is a legal civil date and time.
C12_TimestampDecoding ==
  call.op = "exfatTimeToTime" =>
    /\ (call.ts = 0 \/ FieldOutOfRange(call.ts)) => call.res = NullTime
    /\ ~call.res.null => LegalCivil(call.res)

\* A day past the end of its month (30 February) was decoded, to a day of
\* the next month.
C12_Witness ==
  /\ call.op = "exfatTimeToTime"
  /\ ~FieldOutOfRange(call.ts)
  /\ ~call.res.null
  /\ call.res.month = ((call.ts \div 2097152) % 16) + 1

(***************************************************************************)
(* The chain specification: one readClusterChain on a volume of            *)
(* ChainClusters clusters whose FAT entries are drawn freely.              *)
(***************************************************************************)
\* ClusterCount of the volumes of the chain specification
ChainClusters == 4

\* The values of a FAT entry: free, end of chain, or a cluster number.
ChainValues == {0, EndOfClusterChain} \cup 2..ChainClusters

ChainFats ==
  {[i \in 1..(ChainClusters + 2) |->
      IF i = 1 THEN ReservedCluster
      ELSE IF i = 2 THEN EndOfClusterChain
      ELSE g[i]] :
     g \in [3..(ChainClusters + 2) -> ChainValues]}

ChainStarts ==
  {0, 1, 2, 3, ChainClusters + 1, ChainClusters + 2, ReservedCluster}

ChainSizes == {0, 1, BytesPerCluster + 1, DirClusters * BytesPerCluster}

InitChain ==
  /\ fs \in {[bytesPerCluster |-> BytesPerCluster,
              clusterHeapStart |-> HeapStart,
              totalClusters |-> ChainClusters,
              FirstClusterOfRootDir |-> 2,
              fat |-> fat] : fat \in ChainFats}
  /\ v = MkRaw(HeapStart + ChainClusters * BytesPerCluster)
  /\ call = NoCall
  /\ disk = <<>>
  /\ dirData = <<>>

ChainCall(start, size) ==
  /\ call.op = "none"
  /\ call' = [op |-> "readClusterChain", start |-> start, size |-> size,
              res |-> readClusterChain(fs, v, start, size)]
  /\ UNCHANGED <<fs, disk, v, dirData>>

NextChain == \E start \in ChainStarts, size \in ChainSizes : ChainCall(start, size)

SpecChain == InitChain /\ [][NextChain]_vars

\* C14: with bytesPerCluster > 0 a chain read of size bytes issues at most
\* ceil(size / bytesPerCluster) positional reads, each of at least one
\* byte and together of at most size bytes, whatever the FAT holds.
C14_ChainReadBounded ==
  (call.op = "readClusterChain" /\ fs.bytesPerCluster > 0) =>
    /\ Len(call.res.issued) * fs.bytesPerCluster
         <= call.size + fs.bytesPerCluster - 1
    /\ \A i \in 1..Len(call.res.issued) : call.res.issued[i].n > 0
    /\ SumN(call.res.issued) <= call.size

\* A chain that cycles between the clusters 2 and 3 was read to the size
\* asked for: 16 reads.
C14_Witness ==
  /\ call.op = "readClusterChain"
  /\ fs.fat[3] = 3 /\ fs.fat[4] = 2
  /\ call.start = 2
  /\ call.res.err = "none"
  /\ Len(call.res.issued) = DirClusters
  /\ call.res.issued[3].cluster = 2

\* C15: every positional read of a chain read is of a cluster numbered 2 or
\* more, at a byte offset in the cluster heap.
C15_ReadsInClusterHeap ==
  call.op = "readClusterChain" =>
    \A i \in 1..Len(call.res.issued) :
      /\ call.res.issued[i].cluster >= 2
      /\ call.res.issued[i].off >= fs.clusterHeapStart

=============================================================================
